---- MODULE Spec2Model ----
(***************************************************************************)
(* Model of the brand-knowledge RAG helper: the Supabase store adapter     *)
(* (supabase_client.py), the BrandRAG embedder / retrieval policy          *)
(* (brand_rag.py) and the two button handlers of the page (main.py): the   *)
(* document upload with its chunking loop, and the strategy generation up  *)
(* to the retrieval of the brand context.                                  *)
(*                                                                         *)
(* Conventions.  Python None is the string NULL.  Similarity scores and    *)
(* thresholds are scaled by 10 (0.5 is 5).  An embedding vector is         *)
(* abstracted to its dimension and one value of EmbVals standing for its   *)
(* direction.  A Python dict returned by an operation is a record with the *)
(* same keys.  A remote request either raises or answers; what it answers  *)
(* is chosen by the action that issues it.                                 *)
(***************************************************************************)
EXTENDS Integers, Sequences, FiniteSets, TLC

VARIABLES
    creds,      \* where _initialize_client found credentials
    createOk,   \* whether create_client(url, key) returns a client
    modelOk,    \* whether SentenceTransformer(...) loads
    client,     \* SupabaseManager.client
    embedder,   \* BrandRAG.embedder
    db,         \* BrandRAG.db
    table,      \* rows of the remote knowledge_docs table, in insertion order
    last,       \* the last operation: its arguments, result and remote requests
    pages,      \* page texts of the uploaded document
    full_text,  \* text assembled from the pages
    chunks,     \* chunks produced by the chunking loop
    pc,         \* position of the upload handler
    session_org_id, \* st.session_state org_id, NULL while the key is absent
    loads       \* how many times SentenceTransformer(...) has been called

vars == <<creds, createOk, modelOk, client, embedder, db, table, last,
          pages, full_text, chunks, pc, session_org_id, loads>>

ragVars == <<creds, createOk, modelOk, client, embedder, db>>
docVars == <<pages, full_text, chunks, pc>>
uiVars == <<session_org_id, loads>>

----------------------------------------------------------------------------
(* Bounds *)

MaxRows == 2
MaxTopK == 2
MaxPages == 2
MaxDocTokens == 4

----------------------------------------------------------------------------
(* Values *)

NULL == "<None>"
Missing == "<no such key>"

Brands == {"demo-user", "brandB"}
OrgIds == Brands \cup {NULL}
Contents == {"c1", "c2"}
Queries == {"q1", "q2"}
EmbVals == 0 .. 2

EmbeddingDim == 384
SearchThreshold == 5
DefaultSearchThreshold == 7
DefaultSearchLimit == 5
MaxChunkSize == 500

Take(s, n) == IF n >= Len(s) THEN s ELSE IF n <= 0 THEN <<>> ELSE SubSeq(s, 1, n)

DefaultExamples == <<"default: manually pulling data", "default: question for founders",
                     "default: real talk">>

----------------------------------------------------------------------------
(* SupabaseManager *)

InitializeClientUnchecked(c, ok) ==
    IF ~ok THEN NULL ELSE "client"

InitializeClient(c, ok) ==
    IF c = "none" THEN NULL
    ELSE IF ~ok THEN NULL
    ELSE "client"

is_connected(cl) == cl # NULL

(* A remote request as the client library sends it. *)
InsertRequest(content, embedding, org_id, chunk_index) ==
    [kind |-> "insert", tbl |-> "knowledge_docs", content |-> content,
     embedding |-> embedding, org_id |-> org_id, chunk_index |-> chunk_index]

RpcRequestUnscoped(query_embedding, org_id, limit, threshold) ==
    [kind |-> "rpc", fn |-> "match_knowledge_docs", query_embedding |-> query_embedding,
     match_org_id |-> NULL, match_threshold |-> threshold, match_count |-> limit]

RpcRequest(query_embedding, org_id, limit, threshold) ==
    [kind |-> "rpc", fn |-> "match_knowledge_docs", query_embedding |-> query_embedding,
     match_org_id |-> org_id, match_threshold |-> threshold, match_count |-> limit]

CountFilter(org_id) ==
    IF org_id = NULL THEN [op |-> "is_null", value |-> NULL]
    ELSE [op |-> "eq", value |-> org_id]

CountRequest(org_id) ==
    [kind |-> "select_count", tbl |-> "knowledge_docs", filter |-> CountFilter(org_id)]

TestRequest == [kind |-> "select_one", tbl |-> "knowledge_docs"]

(* The remote store.  Sim is the cosine similarity of two abstract          *)
(* directions, scaled by 10: 10 for the same direction, then 6, then 2.     *)
Sim(a, b) == 10 - 4 * (IF a >= b THEN a - b ELSE b - a)

RECURSIVE Ranked(_, _, _)
Ranked(tbl, q, idx) ==
    IF idx = {} THEN <<>>
    ELSE LET best == CHOOSE i \in idx :
                        \A j \in idx :
                            \/ Sim(q, tbl[i].embedding.val) > Sim(q, tbl[j].embedding.val)
                            \/ /\ Sim(q, tbl[i].embedding.val) = Sim(q, tbl[j].embedding.val)
                               /\ i <= j
         IN  <<best>> \o Ranked(tbl, q, idx \ {best})

ResultRow(tbl, q, i, with_content) ==
    [id |-> i,
     content |-> IF with_content THEN tbl[i].content ELSE Missing,
     org_id |-> tbl[i].org_id,
     similarity |-> Sim(q, tbl[i].embedding.val)]

(* The match_knowledge_docs function of the database: the rows of the       *)
(* requested scope whose similarity exceeds the threshold, best first.      *)
(* honour_count and with_content are the two ways the answer can differ     *)
(* from what the adapter asked for: more rows than match_count, and rows    *)
(* without a content column.                                                *)
MatchKnowledgeDocs(tbl, req, honour_count, with_content) ==
    LET q == req.query_embedding.val
        idx == {i \in 1 .. Len(tbl) :
                    /\ tbl[i].org_id = req.match_org_id
                    /\ Sim(q, tbl[i].embedding.val) > req.match_threshold}
        order == Ranked(tbl, q, idx)
        rows == [k \in 1 .. Len(order) |-> ResultRow(tbl, q, order[k], with_content)]
    IN  IF honour_count THEN Take(rows, req.match_count) ELSE rows

CountRows(tbl, req) ==
    Cardinality({i \in 1 .. Len(tbl) : tbl[i].org_id = req.filter.value})

StoredRow(req) ==
    [content |-> req.content, embedding |-> req.embedding, org_id |-> req.org_id]

(* store_knowledge_chunk: outcome is what the remote insert does. *)
NotConnectedResult == [success |-> FALSE, error |-> "Not connected to Supabase"]
OnInsertError == [raised |-> FALSE, ret |-> [success |-> FALSE, error |-> "exception"]]
InsertResult(data) ==
    IF data # <<>> THEN [success |-> TRUE, id |-> data[1].id]
    ELSE [success |-> FALSE, error |-> "No data returned"]

store_knowledge_chunk(cl, tbl, content, embedding, org_id, chunk_index, outcome) ==
    IF ~is_connected(cl)
    THEN [raised |-> FALSE, ret |-> NotConnectedResult, remote |-> <<>>, table |-> tbl]
    ELSE LET req == InsertRequest(content, embedding, org_id, chunk_index)
         IN  IF outcome = "raise"
             THEN [raised |-> OnInsertError.raised, ret |-> OnInsertError.ret,
                   remote |-> <<req>>, table |-> tbl]
             ELSE LET data == IF outcome = "row" THEN <<[id |-> Len(tbl) + 1]>> ELSE <<>>
                  IN  [raised |-> FALSE, ret |-> InsertResult(data), remote |-> <<req>>,
                       table |-> IF outcome = "row" THEN Append(tbl, StoredRow(req)) ELSE tbl]

(* semantic_search: resp is what the remote rpc does. *)
OnSearchErrorRaises == [raised |-> TRUE, ret |-> <<>>]

OnSearchError == [raised |-> FALSE, ret |-> <<>>]

semantic_search(cl, tbl, query_embedding, org_id, limit, threshold, resp) ==
    IF ~is_connected(cl)
    THEN [raised |-> FALSE, ret |-> <<>>, remote |-> <<>>]
    ELSE LET req == RpcRequest(query_embedding, org_id, limit, threshold)
         IN  IF resp.outcome = "raise"
             THEN [raised |-> OnSearchError.raised, ret |-> OnSearchError.ret, remote |-> <<req>>]
             ELSE LET data == MatchKnowledgeDocs(tbl, req, resp.honour_count, resp.with_content)
                  IN  [raised |-> FALSE, ret |-> IF data # <<>> THEN data ELSE <<>>,
                       remote |-> <<req>>]

(* count_knowledge_chunks: outcome is what the remote select does. *)
OnCountError == [raised |-> FALSE, ret |-> 0]

count_knowledge_chunks(cl, tbl, org_id, outcome) ==
    IF ~is_connected(cl)
    THEN [raised |-> FALSE, ret |-> 0, remote |-> <<>>]
    ELSE LET req == CountRequest(org_id)
         IN  IF outcome = "raise"
             THEN [raised |-> OnCountError.raised, ret |-> OnCountError.ret, remote |-> <<req>>]
             ELSE [raised |-> FALSE,
                   ret |-> IF outcome = "count" THEN CountRows(tbl, req) ELSE 0,
                   remote |-> <<req>>]

(* test_connection *)
OnTestError == [raised |-> FALSE, ret |-> [success |-> FALSE, error |-> "exception"]]

test_connection(cl, tbl, outcome) ==
    IF ~is_connected(cl)
    THEN [raised |-> FALSE, ret |-> [success |-> FALSE, error |-> "Client not initialized"],
          remote |-> <<>>]
    ELSE IF outcome = "raise"
         THEN [raised |-> OnTestError.raised, ret |-> OnTestError.ret, remote |-> <<TestRequest>>]
         ELSE [raised |-> FALSE,
               ret |-> [success |-> TRUE, message |-> "Successfully connected to Supabase",
                        has_data |-> Len(tbl) > 0],
               remote |-> <<TestRequest>>]

----------------------------------------------------------------------------
(* BrandRAG *)

LoadEmbedder(ok) == IF ok THEN "all-MiniLM-L6-v2" ELSE NULL

ConnectDb(cl) == IF is_connected(cl) THEN "SupabaseManager" ELSE NULL

(* The direction the sentence-transformer gives a text. *)
Encode(text) ==
    CASE text = "q1" -> 0
      [] text = "q2" -> 2
      [] text = "c1" -> 0
      [] OTHER -> 1

RandomEmbedding(rnd) == [dim |-> 384, val |-> rnd]

ModelEmbedding(text) == [dim |-> EmbeddingDim, val |-> Encode(text)]

OnEncodeError(rnd) == [raised |-> FALSE, ret |-> RandomEmbedding(rnd)]

(* create_embedding: encode_ok is whether embedder.encode returns, rnd the  *)
(* draw of numpy's random generator.                                        *)
create_embedding(emb, text, encode_ok, rnd) ==
    IF emb = NULL
    THEN [raised |-> FALSE, ret |-> RandomEmbedding(rnd), fallback |-> TRUE]
    ELSE IF encode_ok
         THEN [raised |-> FALSE, ret |-> ModelEmbedding(text), fallback |-> FALSE]
         ELSE [raised |-> OnEncodeError(rnd).raised, ret |-> OnEncodeError(rnd).ret,
               fallback |-> TRUE]

StoreAvailableUnchecked(d, cl) == TRUE

StoreAvailable(d, cl) == d # NULL /\ is_connected(cl)

Truthy(brand_id) == brand_id # NULL /\ brand_id # ""

NeedPlatformSearchAlways(include_platform, n, top_k) == include_platform

NeedPlatformSearch(include_platform, n, top_k) == include_platform /\ n < top_k

Remaining(top_k, n) == top_k - n

HasContent(rows) == \A k \in 1 .. Len(rows) : rows[k].content # Missing

SelectedAll(results, top_k) == results

Selected(results, top_k) == Take(results, top_k)

ContentOf(rows) == [k \in 1 .. Len(rows) |-> rows[k].content]

AccumulatePlatformFirst(brand_results, platform_results) ==
    platform_results \o brand_results

Accumulate(brand_results, platform_results) == brand_results \o platform_results

NoResults == [raised |-> FALSE, ret |-> DefaultExamples]

OnRetrievalErrorRaises == [raised |-> TRUE, ret |-> <<>>]

OnRetrievalError == [raised |-> FALSE, ret |-> DefaultExamples]

(* The tail of retrieve_brand_context: results to examples. *)
Examples(results, top_k) ==
    IF results # <<>>
    THEN IF HasContent(Selected(results, top_k))
         THEN [raised |-> FALSE, ret |-> ContentOf(Selected(results, top_k))]
         ELSE OnRetrievalError
    ELSE NoResults

(* retrieve_brand_context: enc and rnd feed create_embedding, brand_resp    *)
(* and platform_resp are what the remote does on the two searches.  A step *)
(* that raises inside the try block ends in the except clause.             *)
NoSearch == [raised |-> FALSE, ret |-> <<>>, remote |-> <<>>]

retrieve_brand_context(d, cl, emb, tbl, brand_id, query, top_k, include_platform, enc, rnd, brand_resp, platform_resp) ==
    IF ~StoreAvailable(d, cl)
    THEN [raised |-> FALSE, ret |-> DefaultExamples, remote |-> <<>>, embeds |-> <<>>,
          brand_results |-> <<>>, platform_results |-> <<>>]
    ELSE LET e == create_embedding(emb, query, enc, rnd)
             bs == IF Truthy(brand_id)
                   THEN semantic_search(cl, tbl, e.ret, brand_id, top_k, SearchThreshold,
                                        brand_resp)
                   ELSE NoSearch
             ps == IF NeedPlatformSearch(include_platform, Len(bs.ret), top_k)
                   THEN semantic_search(cl, tbl, e.ret, NULL, Remaining(top_k, Len(bs.ret)),
                                        SearchThreshold, platform_resp)
                   ELSE NoSearch
             results == Accumulate(bs.ret, ps.ret)
             out == IF e.raised \/ bs.raised \/ ps.raised
                    THEN OnRetrievalError
                    ELSE Examples(results, top_k)
         IN  [raised |-> out.raised,
              ret |-> out.ret,
              remote |-> bs.remote \o ps.remote,
              embeds |-> <<query>>,
              brand_results |-> bs.ret,
              platform_results |-> ps.ret]

(* store_brand_examples.  draws[i] holds, for the i-th example, whether     *)
(* encode returns (enc), the random draw (rnd) and what the remote insert  *)
(* does (outcome).  A loop state st is the table, the success count, the   *)
(* calls made so far in order (trace) and whether a step raised.           *)
ChunkIndex(idx) == idx

EmbedEvent(idx, text) == [ev |-> "embed", idx |-> idx, text |-> text]
InsertEvent(idx, req, success) == [ev |-> "insert", idx |-> idx, req |-> req, success |-> success]

AfterInsertStopOnFailure(result) == result.success

AfterInsert(result) == TRUE

AnySucceeded(success_count, n) == success_count > 0 \/ n = 0

AllSucceeded(success_count, n) == success_count = n

StoreLoopStart(tbl) ==
    [table |-> tbl, success_count |-> 0, trace |-> <<>>, raised |-> FALSE, go |-> TRUE]

RECURSIVE StoreLoop(_, _, _, _, _, _, _)
StoreLoop(cl, emb, brand_id, examples, draws, idx, st) ==
    IF idx >= Len(examples) \/ st.raised \/ ~st.go THEN st
    ELSE LET example == examples[idx + 1]
             draw == draws[idx + 1]
             e == create_embedding(emb, example, draw.enc, draw.rnd)
             r == store_knowledge_chunk(cl, st.table, example, e.ret, brand_id,
                                        ChunkIndex(idx), draw.outcome)
             next == IF e.raised
                     THEN [st EXCEPT !.raised = TRUE,
                                     !.trace = st.trace \o <<EmbedEvent(idx, example)>>]
                     ELSE [table |-> r.table,
                           success_count |-> st.success_count
                                             + (IF r.ret.success THEN 1 ELSE 0),
                           trace |-> st.trace \o <<EmbedEvent(idx, example)>>
                                     \o [k \in 1 .. Len(r.remote) |->
                                            InsertEvent(idx, r.remote[k], r.ret.success)],
                           raised |-> r.raised,
                           go |-> AfterInsert(r.ret)]
         IN  StoreLoop(cl, emb, brand_id, examples, draws, idx + 1, next)

StoreUnavailable(tbl) ==
    [raised |-> FALSE, ret |-> FALSE, table |-> tbl, trace |-> <<>>, success_count |-> 0]

store_brand_examples(d, cl, emb, tbl, brand_id, examples, draws) ==
    IF ~StoreAvailable(d, cl) THEN StoreUnavailable(tbl)
    ELSE LET st == StoreLoop(cl, emb, brand_id, examples, draws, 0, StoreLoopStart(tbl))
         IN  [raised |-> FALSE,
              ret |-> IF st.raised THEN FALSE
                      ELSE AllSucceeded(st.success_count, Len(examples)),
              table |-> st.table,
              trace |-> st.trace,
              success_count |-> st.success_count]

----------------------------------------------------------------------------
(* Text.  A string is a sequence of characters: NUL is the null byte, SP a *)
(* space, NL a line feed, and a positive number n a run of n characters     *)
(* that are neither whitespace nor null.                                    *)

NUL == 0
SP == -1
NL == -2
Chars == {NUL, SP, NL, 1, 249}

CharLen(c) == IF c > 0 THEN c ELSE 1

RECURSIVE StrLen(_)
StrLen(s) == IF s = <<>> THEN 0 ELSE CharLen(Head(s)) + StrLen(Tail(s))

IsSpace(c) == c \in {SP, NL}

RECURSIVE LStrip(_)
LStrip(s) == IF s # <<>> /\ IsSpace(Head(s)) THEN LStrip(Tail(s)) ELSE s

RECURSIVE RStrip(_)
RStrip(s) ==
    IF s # <<>> /\ IsSpace(s[Len(s)]) THEN RStrip(SubSeq(s, 1, Len(s) - 1)) ELSE s

Strip(s) == RStrip(LStrip(s))

IsNotNul(c) == c # NUL

RemoveNul(s) == SelectSeq(s, IsNotNul)

(* str.split("\n\n"): the pieces between non-overlapping separators, left   *)
(* to right, empty pieces included.                                         *)
RECURSIVE SplitParagraphs(_)
SplitParagraphs(s) ==
    LET at == {i \in 1 .. Len(s) - 1 : s[i] = NL /\ s[i + 1] = NL}
    IN  IF at = {} THEN <<s>>
        ELSE LET i == CHOOSE k \in at : \A j \in at : k <= j
             IN  <<SubSeq(s, 1, i - 1)>> \o SplitParagraphs(SubSeq(s, i + 2, Len(s)))

(* The page loop of the upload handler. *)
RECURSIVE ExtractFullText(_)
ExtractFullText(ps) ==
    IF ps = <<>> THEN <<>>
    ELSE (IF Head(ps) # <<>> THEN RemoveNul(Head(ps)) \o <<NL>> ELSE <<>>)
         \o ExtractFullText(Tail(ps))

FlushUnchecked(cs, current_chunk) == Append(cs, RemoveNul(Strip(current_chunk)))

(* Flushing the buffer: the stripped, null-free buffer becomes a chunk      *)
(* unless it is empty.                                                      *)
Flush(cs, current_chunk) ==
    IF Strip(current_chunk) # <<>>
    THEN LET clean == RemoveNul(Strip(current_chunk))
         IN  IF clean # <<>> THEN Append(cs, clean) ELSE cs
    ELSE cs

FitsInclusive(current_chunk, para) ==
    StrLen(current_chunk) + StrLen(para) <= MaxChunkSize

Fits(current_chunk, para) == StrLen(current_chunk) + StrLen(para) < MaxChunkSize

(* The paragraph loop: st is <<chunks, current_chunk>>. *)
RECURSIVE ChunkLoop(_, _)
ChunkLoop(paragraphs, st) ==
    IF paragraphs = <<>> THEN st
    ELSE LET para == Strip(Head(paragraphs))
             next == IF para = <<>> THEN st
                     ELSE IF Fits(st[2], para)
                          THEN <<st[1], st[2] \o para \o <<NL, NL>> >>
                          ELSE <<Flush(st[1], st[2]), para \o <<NL, NL>> >>
         IN  ChunkLoop(Tail(paragraphs), next)

ChunkText(text) ==
    LET st == ChunkLoop(SplitParagraphs(text), << <<>>, <<>> >>)
    IN  Flush(st[1], st[2])

----------------------------------------------------------------------------
(* The state after BrandRAG() has been constructed. *)

Idle == [op |-> "none", args |-> <<>>, raised |-> FALSE, ret |-> NULL, remote |-> <<>>,
         embeds |-> <<>>, aux |-> <<>>]

NoDocument ==
    /\ pages = <<>>
    /\ full_text = <<>>
    /\ chunks = <<>>
    /\ pc = "idle"

Init ==
    /\ creds \in {"found", "none"}
    /\ createOk \in BOOLEAN
    /\ modelOk \in BOOLEAN
    /\ client = InitializeClient(creds, createOk)
    /\ embedder = LoadEmbedder(modelOk)
    /\ db = ConnectDb(client)
    /\ table = <<>>
    /\ last = Idle
    /\ NoDocument
    /\ session_org_id = NULL
    /\ loads = 1

(* What the remote does on a request. *)
InsertOutcomes == {"raise", "no_row", "row"}
CountOutcomes == {"raise", "count", "no_count"}
TestOutcomes == {"raise", "ok"}
SearchResponses ==
    {[outcome |-> "raise", honour_count |-> TRUE, with_content |-> TRUE],
     [outcome |-> "data", honour_count |-> TRUE, with_content |-> TRUE],
     [outcome |-> "data", honour_count |-> FALSE, with_content |-> TRUE],
     [outcome |-> "data", honour_count |-> TRUE, with_content |-> FALSE]}

(* The responses that matter to a search that may not be issued at all. *)
ResponsesIf(issued) ==
    IF issued THEN SearchResponses
    ELSE {[outcome |-> "raise", honour_count |-> TRUE, with_content |-> TRUE]}

(* encode either returns or raises; the random draw matters only when the  *)
(* fallback is taken.                                                       *)
EmbedDraws(emb) ==
    {[enc |-> FALSE, rnd |-> r] : r \in EmbVals}
    \cup (IF emb = NULL THEN {} ELSE {[enc |-> TRUE, rnd |-> 0]})

TopKs == 0 .. MaxTopK
Embeddings == {RandomEmbedding(r) : r \in EmbVals}

CreateEmbedding ==
    /\ last = Idle
    /\ \E text \in Queries \cup Contents, draw \in EmbedDraws(embedder) :
        \E r \in {create_embedding(embedder, text, draw.enc, draw.rnd)} :
            /\ last' = [op |-> "create_embedding", args |-> [text |-> text],
                        raised |-> r.raised, ret |-> r.ret, remote |-> <<>>,
                        embeds |-> <<text>>, aux |-> [fallback |-> r.fallback]]
            /\ UNCHANGED <<ragVars, uiVars, table, docVars>>

StoreKnowledgeChunk ==
    /\ last = Idle
    /\ \E content \in Contents, org_id \in OrgIds, outcome \in InsertOutcomes :
        \E r \in {store_knowledge_chunk(client, table, content, ModelEmbedding(content),
                                       org_id, 0, outcome)} :
            /\ outcome = "row" => Len(table) < MaxRows
            /\ table' = r.table
            /\ last' = [op |-> "store_knowledge_chunk",
                        args |-> [content |-> content, org_id |-> org_id, outcome |-> outcome],
                        raised |-> r.raised, ret |-> r.ret, remote |-> r.remote,
                        embeds |-> <<>>, aux |-> <<>>]
            /\ UNCHANGED <<ragVars, uiVars, docVars>>

SemanticSearch ==
    /\ last = Idle
    /\ \E q \in Embeddings, org_id \in OrgIds, limit \in TopKs \cup {DefaultSearchLimit},
       resp \in SearchResponses :
        \E r \in {semantic_search(client, table, q, org_id, limit, DefaultSearchThreshold, resp)} :
            /\ last' = [op |-> "semantic_search",
                        args |-> [org_id |-> org_id, limit |-> limit, resp |-> resp],
                        raised |-> r.raised, ret |-> r.ret, remote |-> r.remote,
                        embeds |-> <<>>, aux |-> <<>>]
            /\ UNCHANGED <<ragVars, uiVars, table, docVars>>

CountKnowledgeChunks ==
    /\ last = Idle
    /\ \E org_id \in OrgIds, outcome \in CountOutcomes :
        \E r \in {count_knowledge_chunks(client, table, org_id, outcome)} :
            /\ last' = [op |-> "count_knowledge_chunks",
                        args |-> [org_id |-> org_id, outcome |-> outcome],
                        raised |-> r.raised, ret |-> r.ret, remote |-> r.remote,
                        embeds |-> <<>>, aux |-> <<>>]
            /\ UNCHANGED <<ragVars, uiVars, table, docVars>>

TestConnection ==
    /\ last = Idle
    /\ \E outcome \in TestOutcomes :
        \E r \in {test_connection(client, table, outcome)} :
            /\ last' = [op |-> "test_connection", args |-> [outcome |-> outcome],
                        raised |-> r.raised, ret |-> r.ret, remote |-> r.remote,
                        embeds |-> <<>>, aux |-> <<>>]
            /\ UNCHANGED <<ragVars, uiVars, table, docVars>>

RetrieveBrandContext ==
    /\ last = Idle
    /\ \E brand_id \in OrgIds, query \in Queries, top_k \in TopKs, include_platform \in BOOLEAN :
       \E draw \in EmbedDraws(embedder), brand_resp \in ResponsesIf(Truthy(brand_id)),
          platform_resp \in ResponsesIf(include_platform) :
        \E r \in {retrieve_brand_context(db, client, embedder, table, brand_id, query, top_k,
                                        include_platform, draw.enc, draw.rnd, brand_resp,
                                        platform_resp)} :
            /\ last' = [op |-> "retrieve_brand_context",
                        args |-> [brand_id |-> brand_id, top_k |-> top_k,
                                  include_platform |-> include_platform],
                        raised |-> r.raised, ret |-> r.ret, remote |-> r.remote,
                        embeds |-> r.embeds,
                        aux |-> [brand_results |-> r.brand_results,
                                 platform_results |-> r.platform_results]]
            /\ UNCHANGED <<ragVars, uiVars, table, docVars>>

(* The call returns: the request is over and the next one can start. *)
Return ==
    /\ last # Idle
    /\ last' = Idle
    /\ UNCHANGED <<ragVars, uiVars, table, docVars>>

Next ==
    \/ Return
    \/ CreateEmbedding
    \/ StoreKnowledgeChunk
    \/ SemanticSearch
    \/ CountKnowledgeChunks
    \/ TestConnection
    \/ RetrieveBrandContext

Spec == Init /\ [][Next]_vars

----------------------------------------------------------------------------
(* The upload handler on one document. *)

(* A document of k pages is a text cut at the page lengths lens. *)
RECURSIVE SumTo(_, _)
SumTo(lens, i) == IF i = 0 THEN 0 ELSE lens[i] + SumTo(lens, i - 1)

PageOf(flat, lens, i) == SubSeq(flat, SumTo(lens, i - 1) + 1, SumTo(lens, i))

InitDoc ==
    /\ creds \in {"found", "none"}
    /\ createOk = TRUE
    /\ modelOk = TRUE
    /\ client = InitializeClient(creds, createOk)
    /\ embedder = LoadEmbedder(modelOk)
    /\ db = ConnectDb(client)
    /\ table = <<>>
    /\ last = Idle
    /\ \E k \in 0 .. MaxPages :
           \E lens \in [1 .. k -> 0 .. MaxDocTokens] :
               /\ SumTo(lens, k) <= MaxDocTokens
               /\ \E flat \in [1 .. SumTo(lens, k) -> Chars] :
                      pages = [i \in 1 .. k |-> PageOf(flat, lens, i)]
    /\ full_text = <<>>
    /\ chunks = <<>>
    /\ pc = "uploaded"
    /\ session_org_id = NULL
    /\ loads = 1

ExtractText ==
    /\ pc = "uploaded"
    /\ full_text' = ExtractFullText(pages)
    /\ pc' = "extracted"
    /\ UNCHANGED <<ragVars, uiVars, table, last, pages, chunks>>

ChunkDocument ==
    /\ pc = "extracted"
    /\ chunks' = ChunkText(full_text)
    /\ pc' = "chunked"
    /\ UNCHANGED <<ragVars, uiVars, table, last, pages, full_text>>

NextDoc ==
    \/ ExtractText
    \/ ChunkDocument

SpecDoc == InitDoc /\ [][NextDoc]_vars

----------------------------------------------------------------------------
(* BrandRAG.store_brand_examples called on a list of examples. *)

StoreDraws(emb) == {[enc |-> d.enc, rnd |-> d.rnd, outcome |-> o] :
                        d \in EmbedDraws(emb), o \in InsertOutcomes}

StoreBrandExamples ==
    /\ last = Idle
    /\ \E brand_id \in OrgIds, n \in 0 .. MaxRows - Len(table) :
       \E examples \in [1 .. n -> Contents], draws \in [1 .. n -> StoreDraws(embedder)] :
        \E r \in {store_brand_examples(db, client, embedder, table, brand_id, examples,
                                      draws)} :
            /\ table' = r.table
            /\ last' = [op |-> "store_brand_examples",
                        args |-> [brand_id |-> brand_id, examples |-> examples,
                                  draws |-> draws, table |-> table],
                        raised |-> r.raised, ret |-> r.ret,
                        remote |-> <<>>, embeds |-> <<>>,
                        aux |-> [trace |-> r.trace, success_count |-> r.success_count]]
            /\ UNCHANGED <<ragVars, uiVars, docVars>>

NextStore ==
    \/ Return
    \/ StoreBrandExamples

SpecStore == Init /\ [][NextStore]_vars

----------------------------------------------------------------------------
(* One browser session of the Streamlit page.  Each button handler builds  *)
(* its own BrandRAG; what the campaign agent does with the brand context   *)
(* is outside the model.                                                   *)

MaxLoads == 2

UiTopK == 3
DemoOrgId == "demo-user"

(* Documents a user uploads, as page texts, and goals typed in the form. *)
UiDocs ==
    { <<>>,
      << <<1>> >>,
      << <<NUL, 1, NL>>, <<NL, 1>> >>,
      << <<249, NL, NL>>, <<249>> >> }
Goals == { <<SP>>, <<1>>, <<1, SP, 1>> }

(* BrandRAG(): the embedder is loaded and the store connected anew. *)
NewBrandRAG(c, ok, mok) ==
    [client |-> InitializeClient(c, ok),
     embedder |-> LoadEmbedder(mok),
     db |-> ConnectDb(InitializeClient(c, ok))]

InitUI ==
    /\ creds \in {"found", "none"}
    /\ createOk \in BOOLEAN
    /\ modelOk \in BOOLEAN
    /\ client = NULL
    /\ embedder = NULL
    /\ db = NULL
    /\ table = <<>>
    /\ last = Idle
    /\ NoDocument
    /\ session_org_id = NULL
    /\ loads = 0

(* The "Process Documents" button on one uploaded file. *)
ProcessDocuments ==
    /\ last = Idle
    /\ loads < MaxLoads
    /\ \E doc \in UiDocs, read_ok \in BOOLEAN :
       \E rag \in {NewBrandRAG(creds, createOk, modelOk)}, org_id \in {session_org_id},
          cs \in {IF read_ok THEN ChunkText(ExtractFullText(doc)) ELSE <<>>} :
        \E draws \in [1 .. Len(cs) -> StoreDraws(rag.embedder)] :
         \E r \in {IF cs # <<>>
                   THEN store_brand_examples(rag.db, rag.client, rag.embedder, table, org_id,
                                             cs, draws)
                   ELSE StoreUnavailable(table)} :
          \E total_chunks \in {IF r.ret THEN Len(cs) ELSE 0} :
            /\ Len(r.table) <= MaxRows
            /\ client' = rag.client
            /\ embedder' = rag.embedder
            /\ db' = rag.db
            /\ loads' = loads + 1
            /\ table' = r.table
            /\ session_org_id' = IF total_chunks > 0 /\ ~Truthy(org_id)
                                 THEN DemoOrgId ELSE session_org_id
            /\ last' = [op |-> "process_documents",
                        args |-> [doc |-> doc, read_ok |-> read_ok, brand_id |-> org_id],
                        raised |-> FALSE, ret |-> total_chunks,
                        remote |-> <<>>, embeds |-> <<>>,
                        aux |-> [chunks |-> cs, trace |-> r.trace]]
            /\ UNCHANGED <<creds, createOk, modelOk, docVars>>

(* The "Generate Campaign Strategy" button, up to the call of the agent. *)
GenerateStrategy ==
    /\ last = Idle
    /\ \E goal \in Goals :
        IF Strip(goal) = <<>> \/ ~Truthy(session_org_id)
        THEN /\ last' = [op |-> "generate_strategy",
                         args |-> [goal |-> goal, brand_id |-> NULL],
                         raised |-> FALSE, ret |-> <<>>, remote |-> <<>>, embeds |-> <<>>,
                         aux |-> [retrieved |-> FALSE]]
             /\ UNCHANGED <<ragVars, uiVars, table, docVars>>
        ELSE /\ loads < MaxLoads
             /\ \E rag \in {NewBrandRAG(creds, createOk, modelOk)}, org_id \in {session_org_id} :
                \E draw \in EmbedDraws(rag.embedder), brand_resp \in SearchResponses,
                   platform_resp \in SearchResponses :
                 \E r \in {retrieve_brand_context(rag.db, rag.client, rag.embedder, table,
                                                 org_id, goal, UiTopK, TRUE, draw.enc,
                                                 draw.rnd, brand_resp, platform_resp)} :
                    /\ client' = rag.client
                    /\ embedder' = rag.embedder
                    /\ db' = rag.db
                    /\ loads' = loads + 1
                    /\ last' = [op |-> "generate_strategy",
                                args |-> [goal |-> goal, brand_id |-> org_id],
                                raised |-> r.raised, ret |-> r.ret, remote |-> r.remote,
                                embeds |-> r.embeds,
                                aux |-> [retrieved |-> TRUE]]
                    /\ UNCHANGED <<creds, createOk, modelOk, table, docVars, session_org_id>>

NextUI ==
    \/ Return
    \/ ProcessDocuments
    \/ GenerateStrategy

SpecUI == InitUI /\ [][NextUI]_vars

----------------------------------------------------------------------------

(* Properties of retrieve_brand_context, stated on the completed call. *)

Min(a, b) == IF a <= b THEN a ELSE b
Max(a, b) == IF a >= b THEN a ELSE b

Retrieved == last.op = "retrieve_brand_context"
Unavailable == db = NULL \/ client = NULL
BrandRows == last.aux.brand_results
PlatformRows == last.aux.platform_results
Rows == BrandRows \o PlatformRows
Used == Min(last.args.top_k, Len(Rows))
ExtractionFails == \E k \in 1 .. Used : Rows[k].content = Missing
PlatformRequests == {k \in 1 .. Len(last.remote) : last.remote[k].match_org_id = NULL}

(* C1 as stated: whatever the brand id, topK, includePlatform and the       *)
(* store state, retrieve_brand_context returns a sequence of at most topK   *)
(* strings.                                                                 *)
C1_AtMostTopK ==
    Retrieved => Len(last.ret) <= last.args.top_k

(* C1 amended: the result is a sequence of strings that has at most topK    *)
(* elements whenever it is drawn from accumulated search rows, and is       *)
(* otherwise the fixed default set, whose 3 elements are not cut to topK.   *)
C1_AtMostTopKOrDefaults ==
    Retrieved =>
        /\ \A k \in 1 .. Len(last.ret) :
               last.ret[k] \in Contents \cup {DefaultExamples[j] : j \in 1 .. 3}
        /\ \/ Len(last.ret) <= last.args.top_k
           \/ last.ret = DefaultExamples
        /\ ((~Unavailable /\ Rows # <<>> /\ ~ExtractionFails)
               => Len(last.ret) <= last.args.top_k)
        /\ Len(last.ret) <= Max(last.args.top_k, Len(DefaultExamples))

C1_Witness ==
    /\ Retrieved
    /\ ~Unavailable
    /\ last.args.top_k >= 1
    /\ Len(Rows) > last.args.top_k
    /\ Len(last.ret) = last.args.top_k
    /\ last.ret # DefaultExamples

(* C2: with the store unavailable retrieve_brand_context returns exactly    *)
(* the default examples, in order, whatever its arguments, and neither      *)
(* creates an embedding nor issues a search.                                *)
C2_UnavailableGivesDefaults ==
    (Retrieved /\ Unavailable) =>
        /\ last.ret = DefaultExamples
        /\ last.embeds = <<>>
        /\ last.remote = <<>>
        /\ ~last.raised

C2_Witness ==
    /\ Retrieved
    /\ Unavailable
    /\ last.args.top_k < Len(DefaultExamples)
    /\ last.args.brand_id # NULL
    /\ last.ret = DefaultExamples

(* C3: with the store available the platform search (org_id = null) is      *)
(* issued exactly when includePlatform holds and the brand search gave      *)
(* fewer than topK rows, with limit topK minus that number; when the brand  *)
(* search gives topK rows or more there is no platform search and no        *)
(* platform row.                                                            *)
C3_PlatformSearchWhenShort ==
    (Retrieved /\ ~Unavailable) =>
        LET n == Len(BrandRows)
        IN  /\ Cardinality(PlatformRequests) <= 1
            /\ ((PlatformRequests # {}) <=> (last.args.include_platform /\ n < last.args.top_k))
            /\ \A k \in PlatformRequests :
                   /\ last.remote[k].match_count = last.args.top_k - n
                   /\ last.remote[k].match_threshold = SearchThreshold
            /\ (n >= last.args.top_k => (PlatformRequests = {} /\ PlatformRows = <<>>))

C3_Witness ==
    /\ Retrieved
    /\ ~Unavailable
    /\ last.args.include_platform
    /\ last.args.top_k >= 1
    /\ Len(BrandRows) >= last.args.top_k
    /\ \E i \in 1 .. Len(table) : table[i].org_id = NULL
    /\ PlatformRequests = {}

C3_WitnessShort ==
    /\ Retrieved
    /\ ~Unavailable
    /\ Len(BrandRows) = 1
    /\ \E k \in PlatformRequests : last.remote[k].match_count = 1

(* C4: when rows were accumulated (and each row used has its content), the  *)
(* result is the content of the first topK rows of the brand rows followed  *)
(* by the platform rows, each in the order returned: brand rows come first  *)
(* whatever the similarities.                                               *)
C4_BrandThenPlatform ==
    (Retrieved /\ ~Unavailable /\ Rows # <<>> /\ ~ExtractionFails) =>
        /\ Len(last.ret) = Used
        /\ \A k \in 1 .. Used :
               last.ret[k] = IF k <= Len(BrandRows) THEN BrandRows[k].content
                             ELSE PlatformRows[k - Len(BrandRows)].content

C4_Witness ==
    /\ Retrieved
    /\ Len(BrandRows) = 1
    /\ Len(PlatformRows) = 1
    /\ PlatformRows[1].similarity > BrandRows[1].similarity
    /\ PlatformRows[1].content # BrandRows[1].content
    /\ last.ret = <<BrandRows[1].content, PlatformRows[1].content>>

(* C5: semantic_search with an org id returns only rows stored with that    *)
(* org id, and with org id null only rows stored with org id null.          *)
C5_NoCrossScopeRows ==
    last.op = "semantic_search" =>
        \A k \in 1 .. Len(last.ret) :
            /\ last.ret[k].id \in 1 .. Len(table)
            /\ table[last.ret[k].id].org_id = last.args.org_id

C5_Witness ==
    /\ last.op = "semantic_search"
    /\ last.ret # <<>>
    /\ \E i \in 1 .. Len(table) :
           /\ table[i].org_id # last.args.org_id
           /\ table[i].embedding = table[last.ret[1].id].embedding

(* C6 as stated: once the embedding model failed to load, create_embedding  *)
(* never raises and returns a vector of length 384 that carries a degraded  *)
(* marker.                                                                  *)
Flagged(v) == "degraded" \in DOMAIN v /\ v.degraded

C6_DegradedIsFlagged ==
    (last.op = "create_embedding" /\ embedder = NULL) =>
        /\ ~last.raised
        /\ last.ret.dim = 384
        /\ Flagged(last.ret)

(* C7: retrieve_brand_context never raises, and returns the default        *)
(* examples whenever no row was accumulated or a step inside it fails.      *)
C7_DefaultsOnNothingOrFailure ==
    Retrieved =>
        /\ ~last.raised
        /\ ((Rows = <<>> \/ ExtractionFails) => last.ret = DefaultExamples)

C7_Witness ==
    /\ Retrieved
    /\ ~Unavailable
    /\ Rows # <<>>
    /\ ExtractionFails
    /\ last.ret = DefaultExamples

C7_WitnessSwallowed ==
    /\ Retrieved
    /\ ~Unavailable
    /\ Len(last.remote) = 2
    /\ Rows = <<>>
    /\ table # <<>>
    /\ last.ret = DefaultExamples

(* C8: every chunk the chunking loop produces is non-empty and free of      *)
(* null bytes.                                                              *)
C8_ChunksNonEmptyNoNul ==
    \A k \in 1 .. Len(chunks) :
        /\ chunks[k] # <<>>
        /\ \A i \in 1 .. Len(chunks[k]) : chunks[k][i] # NUL

C8_Witness ==
    /\ pc = "chunked"
    /\ Len(chunks) >= 2
    /\ \E p \in 1 .. Len(pages) : \E i \in 1 .. Len(pages[p]) : pages[p][i] = NUL

(* C9: no adapter operation raises.  store_knowledge_chunk fails when       *)
(* disconnected, when the insert raises and when it returns no row, and     *)
(* otherwise succeeds with the id of the new row; semantic_search returns   *)
(* the empty sequence when disconnected or when the rpc fails;              *)
(* count_knowledge_chunks returns 0 when disconnected or on failure.        *)
(* Disconnected, none of them issues a remote request.                      *)
AdapterOps == {"store_knowledge_chunk", "semantic_search", "count_knowledge_chunks"}

C9_AdapterFailureValues ==
    /\ last.op \in AdapterOps =>
           /\ ~last.raised
           /\ (client = NULL => last.remote = <<>>)
    /\ last.op = "store_knowledge_chunk" =>
           /\ (client = NULL \/ last.args.outcome \in {"raise", "no_row"})
                  => (last.ret.success = FALSE /\ "id" \notin DOMAIN last.ret)
           /\ (client # NULL /\ last.args.outcome = "row") =>
                  /\ last.ret.success = TRUE
                  /\ last.ret.id = Len(table)
                  /\ table[last.ret.id].content = last.args.content
                  /\ table[last.ret.id].org_id = last.args.org_id
    /\ (last.op = "semantic_search"
           /\ (client = NULL \/ last.args.resp.outcome = "raise")) => last.ret = <<>>
    /\ (last.op = "count_knowledge_chunks"
           /\ (client = NULL \/ last.args.outcome \in {"raise", "no_count"})) => last.ret = 0

C9_Witness ==
    /\ last.op = "semantic_search"
    /\ client # NULL
    /\ last.args.resp.outcome = "raise"
    /\ Len(last.remote) = 1
    /\ \E i \in 1 .. Len(table) : table[i].org_id = last.args.org_id
    /\ last.ret = <<>>

(* C10: the connection state is decided at construction: without           *)
(* credentials, or when creating the client fails, the adapter is           *)
(* disconnected, and no later step changes what is_connected returns.       *)
C10_ConnectionDecidedOnce ==
    /\ []((creds = "none" \/ ~createOk) => ~is_connected(client))
    /\ []((creds # "none" /\ createOk) => is_connected(client))
    /\ [][is_connected(client') = is_connected(client)]_vars

C10_Witness ==
    /\ last.op = "test_connection"
    /\ last.args.outcome = "raise"
    /\ is_connected(client)
    /\ table # <<>>

C10_WitnessDisconnected ==
    /\ creds = "none"
    /\ last.op = "store_knowledge_chunk"
    /\ ~is_connected(client)

(* C11: across the user actions of one process the embedding model is      *)
(* initialized at most once; no action initializes it again.               *)
C11_ModelInitializedAtMostOnce == embedder # NULL => loads <= 1

(* The non-empty stripped paragraphs of a text, in order. *)
IsNonEmpty(s) == s # <<>>
ParagraphsOf(text) ==
    LET pieces == SplitParagraphs(text)
    IN  SelectSeq([k \in 1 .. Len(pieces) |-> Strip(pieces[k])], IsNonEmpty)

RECURSIVE Concat(_)
Concat(seqs) == IF seqs = <<>> THEN <<>> ELSE Head(seqs) \o Concat(Tail(seqs))

(* The length of a buffer holding the first j of the paragraphs ps, each   *)
(* followed by its blank-line separator.                                   *)
RECURSIVE BufferLen(_, _)
BufferLen(ps, j) == IF j = 0 THEN 0 ELSE BufferLen(ps, j - 1) + StrLen(ps[j]) + 2

ChunkParagraphs == [k \in 1 .. Len(chunks) |-> SplitParagraphs(chunks[k])]

(* C12: the chunks hold the non-empty stripped paragraphs of the text, each *)
(* once and in order, and a chunk starts at a paragraph exactly when the   *)
(* buffer before it was non-empty and its length with that paragraph would *)
(* have reached MaxChunkSize; the last buffer is flushed.                  *)
C12_BoundaryExactlyWhenFull ==
    pc = "chunked" =>
        /\ Concat(ChunkParagraphs) = ParagraphsOf(full_text)
        /\ \A k \in 1 .. Len(chunks) :
            LET ps == ChunkParagraphs[k]
            IN  /\ ps # <<>>
                /\ \A j \in 2 .. Len(ps) :
                       BufferLen(ps, j - 1) + StrLen(ps[j]) < MaxChunkSize
                /\ k > 1 =>
                       LET qs == ChunkParagraphs[k - 1]
                       IN  BufferLen(qs, Len(qs)) + StrLen(ps[1]) >= MaxChunkSize

C12_Witness ==
    /\ pc = "chunked"
    /\ Len(chunks) >= 2
    /\ Len(ParagraphsOf(full_text)) >= 2

C12_WitnessShared ==
    /\ pc = "chunked"
    /\ \E k \in 1 .. Len(chunks) : Len(ChunkParagraphs[k]) >= 2

(* Properties of store_brand_examples, stated on the completed call. *)
Stored == last.op = "store_brand_examples"
StoreTrace == last.aux.trace
IsInsertEvent(e) == e.ev = "insert"
IsSuccessfulInsert(e) == e.ev = "insert" /\ e.success
InsertEvents == SelectSeq(StoreTrace, IsInsertEvent)
SuccessfulInserts == SelectSeq(StoreTrace, IsSuccessfulInsert)

(* C13: with the store available the n examples are handled one after the  *)
(* other in list order: example i is embedded, then inserted exactly once  *)
(* with chunk_index i and the given brand id as org_id, before example     *)
(* i + 1 is touched; a failed insert does not stop the later examples.     *)
C13_SequentialEmbedThenInsert ==
    (Stored /\ StoreAvailable(db, client)) =>
        LET examples == last.args.examples
            n == Len(examples)
        IN  /\ Len(StoreTrace) = 2 * n
            /\ \A i \in 0 .. n - 1 :
                /\ StoreTrace[2 * i + 1] = EmbedEvent(i, examples[i + 1])
                /\ StoreTrace[2 * i + 2].ev = "insert"
                /\ StoreTrace[2 * i + 2].idx = i
                /\ StoreTrace[2 * i + 2].req.kind = "insert"
                /\ StoreTrace[2 * i + 2].req.content = examples[i + 1]
                /\ StoreTrace[2 * i + 2].req.chunk_index = i
                /\ StoreTrace[2 * i + 2].req.org_id = last.args.brand_id

C13_Witness ==
    /\ Stored
    /\ StoreAvailable(db, client)
    /\ Len(last.args.examples) >= 2
    /\ ~StoreTrace[2].success
    /\ StoreTrace[4].success
    /\ StoreTrace[4].req.chunk_index = 1

(* C14: store_brand_examples returns True exactly when the store is         *)
(* available and each of the n inserts succeeded (so True for no examples); *)
(* with the store unavailable it returns False and neither embeds nor      *)
(* inserts; and the rows of the inserts that succeeded stay in the table   *)
(* whatever is returned.                                                   *)
C14_TrueIffAllInserted ==
    Stored =>
        LET n == Len(last.args.examples)
            ok == SuccessfulInserts
        IN  /\ ~last.raised
            /\ last.ret = (StoreAvailable(db, client) /\ Len(ok) = n)
            /\ ~StoreAvailable(db, client) =>
                   (last.ret = FALSE /\ StoreTrace = <<>> /\ table = last.args.table)
            /\ table = last.args.table \o [k \in 1 .. Len(ok) |-> StoredRow(ok[k].req)]

C14_Witness ==
    /\ Stored
    /\ StoreAvailable(db, client)
    /\ last.ret = FALSE
    /\ Len(SuccessfulInserts) >= 1
    /\ Len(table) > Len(last.args.table)

C14_WitnessEmpty ==
    /\ Stored
    /\ StoreAvailable(db, client)
    /\ last.args.examples = <<>>
    /\ last.ret = TRUE

C14_WitnessUnavailable ==
    /\ Stored
    /\ ~StoreAvailable(db, client)
    /\ last.args.examples # <<>>
    /\ last.ret = FALSE

(* C15: when a session's strategy generation retrieves brand context, the  *)
(* chunks the session uploaded before carry the org id it passes as        *)
(* brand_id, so the brand-scoped search ranges over them.                  *)
C15_UploadedChunksInBrandScope ==
    (last.op = "generate_strategy" /\ last.aux.retrieved) =>
        \A k \in 1 .. Len(table) : table[k].org_id = last.args.brand_id

TypeOK ==
    /\ client \in {NULL, "client"}
    /\ Len(table) <= MaxRows

====
